---------------------------- MODULE Spec2Model ----------------------------
(***************************************************************************)
(* PinSaver: the ingestion and deduplication pipeline of a local archive   *)
(* of pins.  The model follows src/src/parser.py (snapshot scanner and pin *)
(* extractor), src/src/models.py (the SQLite table pins), src/src/         *)
(* importer.py (import_pins), src/src/migrate_duplicates.py (the           *)
(* consolidation pass) and the write handlers of src/src/server.py.        *)
(*                                                                         *)
(* SQLite is modelled as the library behaves under Python's sqlite3 with   *)
(* its default isolation level: a SELECT outside a transaction reads the   *)
(* committed table; the first INSERT/UPDATE/DELETE of a connection opens a *)
(* transaction and takes the single write lock; commit publishes the       *)
(* transaction's rows; closing a connection without commit rolls back.     *)
(***************************************************************************)
EXTENDS Integers, Sequences, FiniteSets

VARIABLES
    disk,    \* snapshot documents under base_path: set of [dir, name, doc]
    media,   \* files under originals/: set of <<file_id, file_extension>>
    db,      \* committed rows of table pins
    seq,     \* committed AUTOINCREMENT counter of table pins (sqlite_sequence)
    wtx,     \* the open write transaction: <<>> or <<[owner, rows, seq]>>
    imp,     \* the import command (import_pins)
    mig,     \* the consolidation command (migrate_duplicates)
    srv,     \* the server's request handlers (add_pin, delete_pin)
    imported,\* the snapshot documents some import run has committed
    ever,    \* <<id, pin_id>> of every row a commit has ever published
    folded,  \* <<id of the survivor, id of the deleted row>> of every DELETE
             \* a consolidation pass has committed
    hist,    \* what the latest commands run under the single-writer
             \* discipline observed at their start and end, oldest first
    ops      \* number of commands and requests started so far

vars ==
    <<disk, media, db, seq, wtx, imp, mig, srv, imported, ever, folded, hist,
      ops>>

(***************************************************************************)
(* Bounds of the model.                                                    *)
(***************************************************************************)
\* commands (import runs, consolidation passes) started in one behaviour of
\* the commands run one at a time
MaxSeqOps == 4

\* commands and requests started in one behaviour of the concurrent system
MaxOps == 3

\* events kept in hist: the start and the end of the latest two commands
Window == 4

(***************************************************************************)
(* parser.py: URLs, dates, the pin extractor and the snapshot scanner.     *)
(***************************************************************************)
\* One candidate of an img srcset.  size is the path segment after the host
\* ("originals", "236x", ...); wellformed says whether the rest of the path
\* has the shape xx/xx/xx/<32 hex>.<ext>; file_id and ext are the captures.
Url(size, wellformed, file_id, ext) ==
    [size |-> size, wellformed |-> wellformed, file_id |-> file_id, ext |-> ext]

\* '/originals/' in part
HasOriginalsMarker(url) == url.size = "originals"

\* extract_file_id_from_url: <<>> for None, else <<(file_id, extension)>>
ExtractFileIdFromUrl(url) ==
    IF url.size = "originals" /\ url.wellformed
    THEN << <<url.file_id, url.ext>> >>
    ELSE << >>

\* f"https://pinterest.com/pin/{pin_id}/"
PinterestUrl(pin_id) == <<"https://pinterest.com/pin/", pin_id, "/">>

IsLeap(y) == (y % 4 = 0 /\ y % 100 # 0) \/ y % 400 = 0

DaysInMonth(y, m) ==
    IF m = 2 THEN (IF IsLeap(y) THEN 29 ELSE 28)
    ELSE IF m \in {4, 6, 9, 11} THEN 30 ELSE 31

\* strptime(date_str, '%Y%m%d') succeeds on an 8-digit string
ValidDate(n) ==
    LET y == n \div 10000
        m == (n \div 100) % 100
        d == n % 100
    IN  /\ y >= 1
        /\ m \in 1..12
        /\ d >= 1
        /\ d <= DaysInMonth(y, m)

\* days from 1970-01-01 to y-m-d in the proleptic Gregorian calendar
DaysFromCivil(y, m, d) ==
    LET yy  == IF m <= 2 THEN y - 1 ELSE y
        era == yy \div 400
        yoe == yy - era * 400
        mp  == IF m > 2 THEN m - 3 ELSE m + 9
        doy == (153 * mp + 2) \div 5 + d - 1
        doe == yoe * 365 + yoe \div 4 - yoe \div 100 + doy
    IN  era * 146097 + doe - 719468

\* date_string_to_timestamp, for a string strptime accepts: midnight UTC
DateStringToTimestamp(n) ==
    DaysFromCivil(n \div 10000, (n \div 100) % 100, n % 100) * 86400

\* One element carrying data-test-pin-id: the attribute's value ("" when it
\* is empty) and the srcset candidates of its first img with a srcset
\* (<<>> when there is no such img).
Element(pin_id, srcset) == [pin_id |-> pin_id, srcset |-> srcset]

RECURSIVE FirstOriginalBreaks(_)
\* variant: the loop leaves at the first candidate that contains the marker,
\* whether or not a file id can be extracted from it
FirstOriginalBreaks(srcset) ==
    IF srcset = << >> THEN << >>
    ELSE IF HasOriginalsMarker(Head(srcset))
         THEN IF ExtractFileIdFromUrl(Head(srcset)) # << >>
              THEN << Head(srcset) >>
              ELSE << >>
         ELSE FirstOriginalBreaks(Tail(srcset))

RECURSIVE FirstOriginal(_)
\* the loop over srcset.split(','): the first candidate that contains the
\* marker and from which a file id can be extracted; <<>> when there is none
FirstOriginal(srcset) ==
    IF srcset = << >> THEN << >>
    ELSE IF HasOriginalsMarker(Head(srcset))
            /\ ExtractFileIdFromUrl(Head(srcset)) # << >>
         THEN << Head(srcset) >>
         ELSE FirstOriginal(Tail(srcset))

ParsedPin(pin_id, url, source_date) ==
    [pin_id         |-> pin_id,
     file_id        |-> ExtractFileIdFromUrl(url)[1][1],
     file_extension |-> ExtractFileIdFromUrl(url)[1][2],
     pinterest_url  |-> PinterestUrl(pin_id),
     original_url   |-> url,
     source_date    |-> source_date]

RECURSIVE PinsData(_, _)
\* pins_data: the accepted elements in document order
PinsData(doc, source_date) ==
    IF doc = << >> THEN << >>
    ELSE LET e    == Head(doc)
             rest == PinsData(Tail(doc), source_date)
         IN  IF e.pin_id = "" \/ FirstOriginal(e.srcset) = << >>
             THEN rest
             ELSE <<ParsedPin(e.pin_id, FirstOriginal(e.srcset)[1], source_date)>>
                  \o rest

\* variant: pins_data is yielded in document order
NotReversed(s) == s

Reversed(s) == [i \in 1..Len(s) |-> s[Len(s) + 1 - i]]

\* parse_html_file: what the generator yields, in order
ParseHtmlFile(doc, source_date) == Reversed(PinsData(doc, source_date))

\* re.match(r'^\d{8}$', folder.name) for a folder named by the digits of n
MatchesEightDigits(n) == n \in 0..99999999

RECURSIVE SortByDirNewestFirst(_)
\* variant: html_files.sort(key=parent.name, reverse=True)
SortByDirNewestFirst(files) ==
    IF files = << >> THEN << >>
    ELSE LET n      == Len(files)
             sorted == SortByDirNewestFirst(SubSeq(files, 1, n - 1))
             x      == files[n]
             before == SelectSeq(sorted, LAMBDA f : f.dir >= x.dir)
             after  == SelectSeq(sorted, LAMBDA f : f.dir < x.dir)
         IN  before \o <<x>> \o after

RECURSIVE SortByDir(_)
\* html_files.sort(key=parent.name): a stable sort, here by insertion
SortByDir(files) ==
    IF files = << >> THEN << >>
    ELSE LET n      == Len(files)
             sorted == SortByDir(SubSeq(files, 1, n - 1))
             x      == files[n]
             before == SelectSeq(sorted, LAMBDA f : f.dir <= x.dir)
             after  == SelectSeq(sorted, LAMBDA f : f.dir > x.dir)
         IN  before \o <<x>> \o after

\* The enumerations the filesystem may give get_html_files: folders in sorted
\* order (sorted(base_path.iterdir())), the documents of one folder in any
\* order (folder.glob).
Enumerations(d) ==
    {s \in [1..Cardinality(d) -> d] :
        /\ \A i, j \in 1..Cardinality(d) : i # j => s[i] # s[j]
        /\ \A i, j \in 1..Cardinality(d) : i < j => s[i].dir <= s[j].dir}

\* get_html_files, given the enumeration
GetHtmlFiles(enum) ==
    SortByDir(SelectSeq(enum, LAMBDA f : MatchesEightDigits(f.dir)))

(***************************************************************************)
(* models.py: the table pins.                                              *)
(***************************************************************************)
\* the value a connection reads: its own open transaction, else the
\* committed table
Owns(c) == IF wtx = << >> THEN FALSE ELSE wtx[1].owner = c

View(c) == IF Owns(c) THEN wtx[1].rows ELSE db

ViewSeq(c) == IF Owns(c) THEN wtx[1].seq ELSE seq

\* the write lock is free for connection c
CanWrite(c) == IF wtx = << >> THEN TRUE ELSE wtx[1].owner = c

\* variant: the existence check never finds the pin
PinExistsNever(rows, pin_id) == FALSE

\* pin_exists
PinExists(rows, pin_id) == \E r \in rows : r.pin_id = pin_id

SetMax(S) == CHOOSE x \in S : \A y \in S : y <= x

\* variant: INTEGER PRIMARY KEY without AUTOINCREMENT, one more than the
\* largest id the table holds now
NextIdRowid(rows, s) == SetMax({0} \cup {r.id : r \in rows}) + 1

\* INTEGER PRIMARY KEY AUTOINCREMENT: one more than the largest id the table
\* has ever held
NextId(rows, s) == SetMax({s} \cup {r.id : r \in rows}) + 1

\* variant: the table is created without UNIQUE on pin_id
UniqueOkOff(rows, pin_id) == TRUE

\* the UNIQUE constraint on pin_id lets the INSERT through
UniqueOk(rows, pin_id) == ~PinExists(rows, pin_id)

Row(id, pin) ==
    [id             |-> id,
     pin_id         |-> pin.pin_id,
     file_id        |-> pin.file_id,
     file_extension |-> pin.file_extension,
     pinterest_url  |-> pin.pinterest_url,
     original_url   |-> pin.original_url,
     source_date    |-> pin.source_date,
     rating         |-> pin.rating]

\* Pin(...) without rating: the dataclass default rating = 0
Pin(parsed) ==
    [pin_id         |-> parsed.pin_id,
     file_id        |-> parsed.file_id,
     file_extension |-> parsed.file_extension,
     pinterest_url  |-> parsed.pinterest_url,
     original_url   |-> parsed.original_url,
     source_date    |-> parsed.source_date,
     rating         |-> 0]

\* the transaction of connection c after its INSERT of pin
InsertRow(c, pin) ==
    LET id == NextId(View(c), ViewSeq(c))
    IN  <<[owner |-> c, rows |-> View(c) \cup {Row(id, pin)}, seq |-> id]>>

\* conn.commit(): the transaction's rows and counter become the committed ones
Publish(rows, s) ==
    /\ db' = rows
    /\ seq' = s
    /\ ever' = ever \cup {<<r.id, r.pin_id>> : r \in rows}

\* get_pin_count
GetPinCount(rows) == Cardinality(rows)

\* variant: the lookup of the media file always succeeds
FileExistsAlways(file_id, file_extension) == TRUE

\* file_exists_in_originals
FileExistsInOriginals(file_id, file_extension) ==
    <<file_id, file_extension>> \in media
(***************************************************************************)
(* The snapshot documents and media files the model draws from.            *)
(***************************************************************************)
Original(file_id) == Url("originals", TRUE, file_id, "jpg")

Thumb(file_id) == Url("236x", TRUE, file_id, "jpg")

\* an element as the site renders it: a thumbnail candidate, then the original
PinElement(pin_id, file_id) ==
    Element(pin_id, <<Thumb(file_id), Original(file_id)>>)

SnapA ==
    [dir |-> 20240101, name |-> "a.html",
     doc |-> <<PinElement("P1", "F1"), PinElement("P2", "F2")>>]

SnapB ==
    [dir |-> 20240102, name |-> "b.html",
     doc |-> <<PinElement("P3", "F1"), PinElement("P2", "F2")>>]

SnapC ==
    [dir |-> 20240102, name |-> "c.html",
     doc |-> <<PinElement("P4", "F1"),
               Element("", <<Original("F2")>>),
               PinElement("P5", "F3"),
               Element("P6", <<Thumb("F2")>>)>>]

Catalogue == {SnapA, SnapB, SnapC}

\* a folder whose name is eight digits and no calendar date (30 February)
SnapD ==
    [dir |-> 20240230, name |-> "d.html", doc |-> <<PinElement("P8", "F1")>>]

\* a document with an element whose srcset holds, before its original, a
\* candidate under /originals/ that has not the shape xx/xx/xx/<32 hex>.<ext>
SnapE ==
    [dir |-> 20240103, name |-> "e.html",
     doc |-> <<PinElement("P1", "F1"),
               Element("P9", <<Thumb("F1"), Url("originals", FALSE, "", ""),
                               Original("F1"), Original("F2")>>),
               PinElement("P10", "F2")>>]

MediaFile(file_id) == <<file_id, "jpg">>

\* the media directories a behaviour may start from
MediaChoices == {{MediaFile("F1"), MediaFile("F2")}, {MediaFile("F1")}}

(***************************************************************************)
(* The history of the commands run one at a time.                          *)
(***************************************************************************)
Event(op, phase, ok, stats) ==
    [op |-> op, phase |-> phase, ok |-> ok, disk |-> disk, media |-> media,
     db |-> db, imported |-> imported, stats |-> stats]

\* the latest Window elements of s
Latest(s) == IF Len(s) <= Window THEN s ELSE SubSeq(s, Len(s) - Window + 1, Len(s))

\* sw: the command runs under the single-writer discipline and is recorded
Log(sw, events) == hist' = IF sw THEN Latest(hist \o events) ELSE hist

Stopped == {"idle", "done", "failed"}

\* how many commands and requests a behaviour may start
Budget(sw) == IF sw THEN MaxSeqOps ELSE MaxOps

(***************************************************************************)
(* importer.py: import_pins.                                               *)
(***************************************************************************)
Stats0 ==
    [html_files_processed   |-> 0,
     pins_found             |-> 0,
     pins_imported          |-> 0,
     pins_skipped_duplicate |-> 0,
     pins_skipped_no_file   |-> 0,
     total_pins_in_db       |-> << >>]

Bump(stats, key) == [stats EXCEPT ![key] = @ + 1]

ImpIdle ==
    [pc |-> "idle", files |-> << >>, k |-> 0, pins |-> << >>, cur |-> << >>,
     stats |-> Stats0, inserted |-> {}, err |-> ""]

\* conn.close() without commit: the connection's open transaction is rolled back
Rollback(c) == IF Owns(c) THEN << >> ELSE wtx

\* variant: the finally clause commits before it closes
ImpRaiseCommits(sw, err) ==
    /\ imp' = [ImpIdle EXCEPT !.pc = "failed", !.err = err]
    /\ Publish(View("imp"), ViewSeq("imp"))
    /\ wtx' = Rollback("imp")
    /\ Log(sw, <<Event("import", "end", FALSE, Stats0)>>)
    /\ UNCHANGED <<folded, srv, disk, media, mig, imported, ops>>

\* an exception leaves import_pins through the finally clause: the connection
\* is closed, no statistics are returned and the process ends
ImpRaise(sw, err) ==
    /\ imp' = [ImpIdle EXCEPT !.pc = "failed", !.err = err]
    /\ wtx' = Rollback("imp")
    /\ Log(sw, <<Event("import", "end", FALSE, Stats0)>>)
    /\ UNCHANGED <<folded, srv, disk, media, db, ever, seq, mig, imported, ops>>

\* import_pins up to the loop: init_db finds the table, get_html_files lists
\* the snapshots, the statistics start at zero, the connection is opened
ImpStart(sw) ==
    /\ imp.pc \in Stopped
    /\ sw => mig.pc \in Stopped
    /\ ops < Budget(sw)
    /\ \E enum \in Enumerations(disk) :
          imp' = [ImpIdle EXCEPT !.pc = "files", !.files = GetHtmlFiles(enum)]
    /\ ops' = ops + 1
    /\ Log(sw, <<Event("import", "start", TRUE, Stats0)>>)
    /\ UNCHANGED <<folded, srv, disk, media, db, ever, seq, wtx, mig, imported>>

\* the next html_file: html_files_processed is counted, then the generator
\* runs to its first yield: it converts the folder name to the source date
\* (ValueError when it is no calendar date) and parses the whole document
ImpParse(sw) ==
    /\ imp.pc = "files"
    /\ imp.k < Len(imp.files)
    /\ LET f     == imp.files[imp.k + 1]
           stats == Bump(imp.stats, "html_files_processed")
       IN  IF ValidDate(f.dir)
           THEN /\ imp' = [imp EXCEPT
                             !.pc = "pins", !.k = @ + 1, !.stats = stats,
                             !.pins = ParseHtmlFile(f.doc,
                                          DateStringToTimestamp(f.dir))]
                /\ UNCHANGED <<folded, srv, disk, media, db, ever, seq, wtx, mig, imported, hist, ops>>
           ELSE ImpRaise(sw, "ValueError")

\* open() or read() of the next html_file fails
ImpReadError(sw) ==
    /\ imp.pc = "files"
    /\ imp.k < Len(imp.files)
    /\ ImpRaise(sw, "OSError")

\* variant: a pin without its media file is counted with the duplicates
ImpFileCheckAsDuplicate ==
    /\ imp.pc = "pins"
    /\ imp.pins # << >>
    /\ LET p     == Head(imp.pins)
           stats == Bump(imp.stats, "pins_found")
       IN  IF ~FileExistsInOriginals(p.file_id, p.file_extension)
           THEN imp' = [imp EXCEPT
                          !.stats = Bump(stats, "pins_skipped_duplicate"),
                          !.pins = Tail(@)]
           ELSE imp' = [imp EXCEPT
                          !.pc = "exists", !.stats = stats,
                          !.pins = Tail(@), !.cur = <<Pin(p)>>]
    /\ UNCHANGED <<folded, srv, disk, media, db, ever, seq, wtx, mig, imported, hist, ops>>

\* the next parsed pin: pins_found is counted and the media file is looked up
ImpFileCheck ==
    /\ imp.pc = "pins"
    /\ imp.pins # << >>
    /\ LET p     == Head(imp.pins)
           stats == Bump(imp.stats, "pins_found")
       IN  IF ~FileExistsInOriginals(p.file_id, p.file_extension)
           THEN imp' = [imp EXCEPT
                          !.stats = Bump(stats, "pins_skipped_no_file"),
                          !.pins = Tail(@)]
           ELSE imp' = [imp EXCEPT
                          !.pc = "exists", !.stats = stats,
                          !.pins = Tail(@), !.cur = <<Pin(p)>>]
    /\ UNCHANGED <<folded, srv, disk, media, db, ever, seq, wtx, mig, imported, hist, ops>>

\* variant: a duplicate found under an earlier date label moves the stored
\* source_date back to that date
ImpPinExistsKeepsEarliest ==
    /\ imp.pc = "exists"
    /\ IF PinExists(View("imp"), imp.cur[1].pin_id)
       THEN /\ imp' = [imp EXCEPT
                         !.pc = "pins", !.cur = << >>,
                         !.stats = Bump(@, "pins_skipped_duplicate")]
            /\ wtx' = <<[owner |-> "imp",
                         rows  |-> {IF /\ r.pin_id = imp.cur[1].pin_id
                                       /\ imp.cur[1].source_date < r.source_date
                                    THEN [r EXCEPT !.source_date =
                                                     imp.cur[1].source_date]
                                    ELSE r : r \in View("imp")},
                         seq   |-> ViewSeq("imp")]>>
       ELSE /\ imp' = [imp EXCEPT !.pc = "insert"]
            /\ wtx' = wtx
    /\ UNCHANGED <<folded, srv, disk, media, db, ever, seq, mig, imported, hist, ops>>

\* variant: a duplicate is skipped without being counted
ImpPinExistsUncounted ==
    /\ imp.pc = "exists"
    /\ IF PinExists(View("imp"), imp.cur[1].pin_id)
       THEN imp' = [imp EXCEPT !.pc = "pins", !.cur = << >>]
       ELSE imp' = [imp EXCEPT !.pc = "insert"]
    /\ UNCHANGED <<folded, srv, disk, media, db, ever, seq, wtx, mig, imported, hist, ops>>

\* insert_pin, the existence check: a duplicate is counted and skipped
ImpPinExists ==
    /\ imp.pc = "exists"
    /\ IF PinExists(View("imp"), imp.cur[1].pin_id)
       THEN imp' = [imp EXCEPT
                      !.pc = "pins", !.cur = << >>,
                      !.stats = Bump(@, "pins_skipped_duplicate")]
       ELSE imp' = [imp EXCEPT !.pc = "insert"]
    /\ UNCHANGED <<folded, srv, disk, media, db, ever, seq, wtx, mig, imported, hist, ops>>

\* insert_pin, the INSERT: it opens the transaction if none is open; the
\* UNIQUE constraint raises IntegrityError
ImpInsert(sw) ==
    /\ imp.pc = "insert"
    /\ CanWrite("imp")
    /\ IF UniqueOk(View("imp"), imp.cur[1].pin_id)
       THEN /\ wtx' = InsertRow("imp", imp.cur[1])
            /\ imp' = [imp EXCEPT
                         !.pc = "pins", !.cur = << >>,
                         !.stats = Bump(@, "pins_imported"),
                         !.inserted = @ \cup
                            {<<imp.k, imp.cur[1].pin_id>>}]
            /\ UNCHANGED <<folded, srv, disk, media, db, ever, seq, mig, imported, hist, ops>>
       ELSE ImpRaise(sw, "IntegrityError")

\* the INSERT finds the write lock held by another connection until the
\* busy timeout: OperationalError (database is locked)
ImpBusy(sw) ==
    /\ imp.pc = "insert"
    /\ ~CanWrite("imp")
    /\ ImpRaise(sw, "OperationalError")

\* variant: the per-snapshot conn.commit() is left out, so that the inserts
\* of a snapshot are dropped when the next one starts or the run closes
ImpCommitLost ==
    /\ imp.pc = "pins"
    /\ imp.pins = << >>
    /\ wtx' = Rollback("imp")
    /\ imp' = [imp EXCEPT !.pc = "files"]
    /\ imported' = imported \cup {imp.files[imp.k]}
    /\ UNCHANGED <<folded, srv, disk, media, db, ever, seq, mig, hist, ops>>

\* conn.commit() after the last pin of a snapshot
ImpCommit ==
    /\ imp.pc = "pins"
    /\ imp.pins = << >>
    /\ Publish(View("imp"), ViewSeq("imp"))
    /\ wtx' = Rollback("imp")
    /\ imp' = [imp EXCEPT !.pc = "files"]
    /\ imported' = imported \cup {imp.files[imp.k]}
    /\ UNCHANGED <<folded, srv, disk, media, mig, hist, ops>>

\* the store fails under a SELECT, an INSERT or a commit of the run
ImpStorageError(sw) ==
    /\ IF imp.pc = "pins" THEN imp.pins = << >>
                          ELSE imp.pc \in {"exists", "insert"}
    /\ ImpRaise(sw, "OperationalError")

\* after the last snapshot: total_pins_in_db, close, return stats
ImpFinish(sw) ==
    /\ imp.pc = "files"
    /\ imp.k = Len(imp.files)
    /\ LET stats == [imp.stats EXCEPT
                       !.total_pins_in_db = <<GetPinCount(View("imp"))>>]
       IN  /\ imp' = [ImpIdle EXCEPT !.pc = "done", !.stats = stats]
           /\ Log(sw, <<Event("import", "end", TRUE, stats)>>)
    /\ UNCHANGED <<folded, srv, disk, media, db, ever, seq, wtx, mig, imported, ops>>


(***************************************************************************)
(* migrate_duplicates.py: the consolidation pass.                          *)
(***************************************************************************)
MigIdle ==
    [pc |-> "idle", duplicates |-> {}, pins |-> << >>,
     total_deleted |-> 0, total_rating_added |-> 0, folded |-> {}, err |-> ""]

MigStats(m) ==
    [total_deleted |-> m.total_deleted,
     total_rating_added |-> m.total_rating_added]

\* variant: HAVING cnt > 2
DuplicatesOverTwo(rows) ==
    {[file_id |-> f,
      cnt     |-> Cardinality({r \in rows : r.file_id = f})] :
        f \in {x.file_id : x \in {r \in rows :
                 Cardinality({q \in rows : q.file_id = r.file_id}) > 2}}}

\* SELECT file_id, COUNT(*) as cnt FROM pins GROUP BY file_id HAVING cnt > 1
Duplicates(rows) ==
    {[file_id |-> f,
      cnt     |-> Cardinality({r \in rows : r.file_id = f})] :
        f \in {x.file_id : x \in {r \in rows :
                 Cardinality({q \in rows : q.file_id = r.file_id}) > 1}}}

\* variant: ORDER BY id ASC
OlderById(a, b) == a.id < b.id

\* ORDER BY source_date ASC, id ASC
Older(a, b) ==
    \/ a.source_date < b.source_date
    \/ a.source_date = b.source_date /\ a.id < b.id

RECURSIVE OrderedPins(_)
OrderedPins(rows) ==
    IF rows = {} THEN << >>
    ELSE LET first == CHOOSE r \in rows :
                          \A q \in rows \ {r} : Older(r, q)
         IN  <<first>> \o OrderedPins(rows \ {first})

\* SELECT ... FROM pins WHERE file_id = ? ORDER BY source_date ASC, id ASC
PinsOfFile(rows, file_id) ==
    OrderedPins({r \in rows : r.file_id = file_id})

\* variant: the docstring's "rating = count of duplicates - 1", which forgets
\* the rating the oldest pin already has
NewRatingCountOnly(pins) == Len(pins) - 1

\* variant: one is added for the group, not one for each deleted duplicate
NewRatingPlusOne(pins) == pins[1].rating + 1

\* variant: the number of deleted duplicates is subtracted
NewRatingMinus(pins) == pins[1].rating - (Len(pins) - 1)

RECURSIVE NewRatingOfAll(_)
\* variant: the ratings of the duplicates to delete are added as well
NewRatingOfAll(pins) ==
    IF Len(pins) = 1 THEN pins[1].rating
    ELSE pins[1].rating + 1 + NewRatingOfAll(Tail(pins))

\* new_rating = oldest_pin['rating'] + len(duplicates_to_delete)
NewRating(pins) == pins[1].rating + (Len(pins) - 1)

\* variant: UPDATE pins SET rating = ?, without the WHERE clause
UpdateRatingAll(rows, id, rating) ==
    {[r EXCEPT !.rating = rating] : r \in rows}

\* UPDATE pins SET rating = ? WHERE id = ?
UpdateRating(rows, id, rating) ==
    {IF r.id = id THEN [r EXCEPT !.rating = rating] ELSE r : r \in rows}

\* DELETE FROM pins WHERE id = ?, for each duplicate to delete
DeleteIds(rows, ids) == {r \in rows : r.id \notin ids}

\* variant: only pins[1] is deleted instead of pins[1:]
ConsolidateFirstOnly(rows, pins) ==
    DeleteIds(UpdateRating(rows, pins[1].id, pins[1].rating + (Len(pins) - 1)),
              {pins[2].id})

\* the rows after one group is consolidated: pins[0] is kept, pins[1:] go
Consolidate(rows, pins) ==
    DeleteIds(UpdateRating(rows, pins[1].id, NewRating(pins)),
              {pins[i].id : i \in 2..Len(pins)})

\* variant: the pass commits what it has done before the exception leaves it
MigRaiseCommits(sw, err) ==
    /\ mig' = [MigIdle EXCEPT !.pc = "failed", !.err = err]
    /\ Publish(View("mig"), ViewSeq("mig"))
    /\ wtx' = Rollback("mig")
    /\ Log(sw, <<Event("migrate", "end", FALSE, MigStats(mig))>>)
    /\ UNCHANGED <<folded, srv, disk, media, imp, imported, ops>>

\* an uncaught exception ends the process; its connection is rolled back.
\* The event keeps the counts of the groups the pass had reported.
MigRaise(sw, err) ==
    /\ mig' = [MigIdle EXCEPT !.pc = "failed", !.err = err]
    /\ wtx' = Rollback("mig")
    /\ Log(sw, <<Event("migrate", "end", FALSE, MigStats(mig))>>)
    /\ UNCHANGED <<folded, srv, disk, media, db, ever, seq, imp, imported, ops>>

\* init_db, connect, the grouping query; with no duplicates the pass returns
MigStart(sw) ==
    /\ mig.pc \in Stopped
    /\ sw => imp.pc \in Stopped
    /\ ops < Budget(sw)
    /\ ops' = ops + 1
    /\ LET dups == Duplicates(View("mig"))
       IN  IF dups = {}
           THEN /\ mig' = [MigIdle EXCEPT !.pc = "done"]
                /\ Log(sw, <<Event("migrate", "start", TRUE, MigStats(MigIdle)),
                             Event("migrate", "end", TRUE, MigStats(MigIdle))>>)
           ELSE /\ mig' = [MigIdle EXCEPT !.pc = "group", !.duplicates = dups]
                /\ Log(sw, <<Event("migrate", "start", TRUE, MigStats(MigIdle))>>)
    /\ UNCHANGED <<folded, srv, disk, media, db, ever, seq, wtx, imp, imported>>

\* the next dup of the loop: the SELECT of the group's pins; pins[0] of an
\* empty result raises IndexError
MigSelect(sw) ==
    /\ mig.pc = "group"
    /\ \E dup \in mig.duplicates :
          LET pins == PinsOfFile(View("mig"), dup.file_id)
          IN  IF pins = << >>
              THEN MigRaise(sw, "IndexError")
              ELSE /\ mig' = [mig EXCEPT
                                !.pc = "apply", !.pins = pins,
                                !.duplicates = @ \ {dup}]
                   /\ UNCHANGED <<folded, srv, disk, media, db, ever, seq, wtx, imp, imported, hist, ops>>

\* the UPDATE of the oldest pin's rating, which opens the transaction if none
\* is open, and the DELETE of each other pin of the group
MigApply ==
    /\ mig.pc = "apply"
    /\ CanWrite("mig")
    /\ wtx' = <<[owner |-> "mig",
                 rows  |-> Consolidate(View("mig"), mig.pins),
                 seq   |-> ViewSeq("mig")]>>
    /\ mig' = [mig EXCEPT
                 !.pc = "group", !.pins = << >>,
                 !.total_deleted = @ + (Len(mig.pins) - 1),
                 !.total_rating_added = @ + (Len(mig.pins) - 1),
                 !.folded = @ \cup {<<mig.pins[1].id, mig.pins[i].id>> :
                                       i \in 2..Len(mig.pins)}]
    /\ UNCHANGED <<folded, srv, disk, media, db, ever, seq, imp, imported, hist, ops>>

\* the UPDATE finds the write lock held by another connection until the
\* busy timeout: OperationalError (database is locked)
MigBusy(sw) ==
    /\ mig.pc = "apply"
    /\ ~CanWrite("mig")
    /\ MigRaise(sw, "OperationalError")

\* after the loop: conn.commit(), conn.close()
MigCommit(sw) ==
    /\ mig.pc = "group"
    /\ mig.duplicates = {}
    /\ Publish(View("mig"), ViewSeq("mig"))
    /\ wtx' = Rollback("mig")
    /\ folded' = folded \cup mig.folded
    /\ mig' = [mig EXCEPT !.pc = "done", !.folded = {}]
    /\ Log(sw, <<[Event("migrate", "end", TRUE, MigStats(mig))
                    EXCEPT !.db = View("mig")]>>)
    /\ UNCHANGED <<srv, disk, media, imp, imported, ops>>

\* the store fails under a SELECT, an UPDATE, a DELETE or the commit
MigStorageError(sw) ==
    /\ mig.pc \in {"group", "apply"}
    /\ MigRaise(sw, "OperationalError")

(***************************************************************************)
(* server.py: add_pin and delete_pin.                                      *)
(***************************************************************************)
\* requests in flight at the same time
Handlers == {"h1", "h2"}

\* what the requests of the model carry
ReqPins == {"P3", "P7"}

ReqUrls == {Original("F1"), Original("F4"), Url("originals", FALSE, "", "")}

\* int(time.time()) when add_pin builds its Pin
ClockTimes == {DateStringToTimestamp(20240101) + 3600,
               DateStringToTimestamp(20240103)}

\* re.search(r'/([a-f0-9]{32})\.(\w+)(?:\?|$)', original_url): <<>> for no
\* match, else <<(file_id, file_extension)>>; the size segment is not looked at
MatchOriginalUrl(url) ==
    IF url.wellformed THEN << <<url.file_id, url.ext>> >> ELSE << >>

\* a handler's request, locals and response.  For get_pins: offset and limit
\* of the request, total, pins and has_more of the response; and of the client
\* that pages from offset 0 on: got, the pins it has received so far, rows,
\* the store its first request read, and steady, whether every statement of
\* its requests since has read that same store.
HandlerIdle ==
    [pc |-> "idle", kind |-> "", pin_id |-> "", url |-> << >>, file |-> << >>,
     delete_file |-> FALSE, pin |-> << >>, status |-> "", code |-> 0,
     offset |-> 0, limit |-> 0, total |-> 0, pins |-> << >>, has_more |-> FALSE,
     got |-> << >>, rows |-> {}, steady |-> FALSE]

\* the server gives a request to the first handler that is free
Free(h) ==
    /\ srv[h].pc \in Stopped
    /\ h = "h2" => srv["h1"].pc \notin Stopped

\* the handler returns or raises: the response
Respond(h, status, code) ==
    srv' = [srv EXCEPT ![h] = [HandlerIdle EXCEPT
                                 !.pc = "done", !.kind = srv[h].kind,
                                 !.pin_id = srv[h].pin_id,
                                 !.status = status, !.code = code]]

\* add_pin up to the file lookup: the existence check answers "exists"; an
\* original_url with no file id in it is answered 400
AddPinBegin(h, pin_id, url) ==
    /\ Free(h)
    /\ ops < MaxOps
    /\ ops' = ops + 1
    /\ IF PinExists(View(h), pin_id)
       THEN srv' = [srv EXCEPT ![h] = [HandlerIdle EXCEPT
                       !.pc = "done", !.kind = "add", !.pin_id = pin_id,
                       !.status = "exists", !.code = 200]]
       ELSE IF MatchOriginalUrl(url) = << >>
       THEN srv' = [srv EXCEPT ![h] = [HandlerIdle EXCEPT
                       !.pc = "done", !.kind = "add", !.pin_id = pin_id,
                       !.status = "Invalid original_url format", !.code = 400]]
       ELSE srv' = [srv EXCEPT ![h] = [HandlerIdle EXCEPT
                       !.pc = "file", !.kind = "add", !.pin_id = pin_id,
                       !.url = url, !.file = MatchOriginalUrl(url)[1]]]
    /\ UNCHANGED <<folded, disk, media, db, ever, seq, wtx, imp, mig, imported, hist>>

\* the Pin add_pin builds
NewPin(h, now) ==
    [pin_id         |-> srv[h].pin_id,
     file_id        |-> srv[h].file[1],
     file_extension |-> srv[h].file[2],
     pinterest_url  |-> PinterestUrl(srv[h].pin_id),
     original_url   |-> srv[h].url,
     source_date    |-> now,
     rating         |-> 0]

\* file_path.exists(): the download is skipped when the file is there
AddPinFileCheck(h) ==
    /\ srv[h].pc = "file"
    /\ IF srv[h].file \in media
       THEN \E now \in ClockTimes :
               srv' = [srv EXCEPT ![h].pc = "exists",
                                  ![h].pin = <<NewPin(h, now)>>]
       ELSE srv' = [srv EXCEPT ![h].pc = "download"]
    /\ UNCHANGED <<folded, disk, media, db, ever, seq, wtx, imp, mig, imported, hist, ops>>

\* the download succeeds and file_path.write_bytes stores the image
AddPinDownload(h) ==
    /\ srv[h].pc = "download"
    /\ media' = media \cup {srv[h].file}
    /\ \E now \in ClockTimes :
          srv' = [srv EXCEPT ![h].pc = "exists", ![h].pin = <<NewPin(h, now)>>]
    /\ UNCHANGED <<folded, disk, db, ever, seq, wtx, imp, mig, imported, hist, ops>>

\* the download fails: 500
AddPinDownloadError(h) ==
    /\ srv[h].pc = "download"
    /\ Respond(h, "Failed to download image", 500)
    /\ UNCHANGED <<folded, disk, media, db, ever, seq, wtx, imp, mig, imported, hist, ops>>

\* insert_pin, the existence check; its result is not looked at by add_pin
AddPinExists(h) ==
    /\ srv[h].pc = "exists"
    /\ IF PinExists(View(h), srv[h].pin_id)
       THEN srv' = [srv EXCEPT ![h].pc = "commit"]
       ELSE srv' = [srv EXCEPT ![h].pc = "insert"]
    /\ UNCHANGED <<folded, disk, media, db, ever, seq, wtx, imp, mig, imported, hist, ops>>

\* insert_pin, the INSERT; IntegrityError is not caught: 500
AddPinInsert(h) ==
    /\ srv[h].pc = "insert"
    /\ CanWrite(h)
    /\ IF UniqueOk(View(h), srv[h].pin_id)
       THEN /\ wtx' = InsertRow(h, srv[h].pin[1])
            /\ srv' = [srv EXCEPT ![h].pc = "commit"]
       ELSE /\ wtx' = Rollback(h)
            /\ Respond(h, "IntegrityError", 500)
    /\ UNCHANGED <<folded, disk, media, db, ever, seq, imp, mig, imported, hist, ops>>

\* the INSERT finds the write lock held until the busy timeout: 500
AddPinBusy(h) ==
    /\ srv[h].pc = "insert"
    /\ ~CanWrite(h)
    /\ Respond(h, "OperationalError", 500)
    /\ UNCHANGED <<folded, disk, media, db, ever, seq, wtx, imp, mig, imported, hist, ops>>

\* conn.commit(), conn.close(), and the answer "added"
AddPinCommit(h) ==
    /\ srv[h].pc = "commit"
    /\ Publish(View(h), ViewSeq(h))
    /\ wtx' = Rollback(h)
    /\ Respond(h, "added", 200)
    /\ UNCHANGED <<folded, disk, media, imp, mig, imported, hist, ops>>

\* delete_pin, the SELECT of the pin's file: 404 when there is no row
DeletePinBegin(h, pin_id, delete_file) ==
    /\ Free(h)
    /\ ops < MaxOps
    /\ ops' = ops + 1
    /\ IF ~PinExists(View(h), pin_id)
       THEN srv' = [srv EXCEPT ![h] = [HandlerIdle EXCEPT
                       !.pc = "done", !.kind = "delete", !.pin_id = pin_id,
                       !.status = "not found", !.code = 404]]
       ELSE LET row == CHOOSE r \in View(h) : r.pin_id = pin_id
            IN  srv' = [srv EXCEPT ![h] = [HandlerIdle EXCEPT
                       !.pc = "delete", !.kind = "delete", !.pin_id = pin_id,
                       !.file = <<row.file_id, row.file_extension>>,
                       !.delete_file = delete_file]]
    /\ UNCHANGED <<folded, disk, media, db, ever, seq, wtx, imp, mig, imported, hist>>

\* DELETE FROM pins WHERE pin_id = ? and conn.commit()
DeletePinDelete(h) ==
    /\ srv[h].pc = "delete"
    /\ CanWrite(h)
    /\ Publish({r \in View(h) : r.pin_id # srv[h].pin_id}, ViewSeq(h))
    /\ wtx' = Rollback(h)
    /\ IF srv[h].delete_file
       THEN srv' = [srv EXCEPT ![h].pc = "unlink"]
       ELSE Respond(h, "deleted", 200)
    /\ UNCHANGED <<folded, disk, media, imp, mig, imported, hist, ops>>

\* the DELETE finds the write lock held until the busy timeout: 500
DeletePinBusy(h) ==
    /\ srv[h].pc = "delete"
    /\ ~CanWrite(h)
    /\ Respond(h, "OperationalError", 500)
    /\ UNCHANGED <<folded, disk, media, db, ever, seq, wtx, imp, mig, imported, hist, ops>>

\* delete_file: file_path.unlink() when the file is there
DeletePinUnlink(h) ==
    /\ srv[h].pc = "unlink"
    /\ media' = media \ {srv[h].file}
    /\ Respond(h, "deleted", 200)
    /\ UNCHANGED <<folded, disk, db, ever, seq, wtx, imp, mig, imported, hist, ops>>

(***************************************************************************)
(* server.py: get_pins.                                                    *)
(***************************************************************************)
\* the limits the requests of the model carry (Query(50, ge=1, le=100))
MaxLimit == 2

RECURSIVE OrderBySourceDateDesc(_)
\* variant: ORDER BY source_date DESC, id DESC
OrderBySourceDateDesc(rows) ==
    IF rows = {} THEN << >>
    ELSE LET r == CHOOSE x \in rows :
                     \A y \in rows :
                        \/ y.source_date < x.source_date
                        \/ y.source_date = x.source_date /\ y.id <= x.id
         IN  <<r>> \o OrderBySourceDateDesc(rows \ {r})

RECURSIVE OrderByIdDesc(_)
\* ORDER BY id DESC
OrderByIdDesc(rows) ==
    IF rows = {} THEN << >>
    ELSE LET r == CHOOSE x \in rows : \A y \in rows : y.id <= x.id
         IN  <<r>> \o OrderByIdDesc(rows \ {r})

\* LIMIT ? OFFSET ?
LimitOffset(s, limit, offset) ==
    IF offset >= Len(s) THEN << >>
    ELSE SubSeq(s, offset + 1,
                IF offset + limit < Len(s) THEN offset + limit ELSE Len(s))

\* one element of the response's pins: the selected columns and image_url
ListedPin(r) ==
    [id             |-> r.id,
     pin_id         |-> r.pin_id,
     file_id        |-> r.file_id,
     file_extension |-> r.file_extension,
     pinterest_url  |-> r.pinterest_url,
     original_url   |-> r.original_url,
     source_date    |-> r.source_date,
     image_url      |-> <<"/images/", r.file_id, ".", r.file_extension>>]

\* the SELECT of get_pins and the loop over its rows
SelectPins(rows, limit, offset) ==
    LET page == LimitOffset(OrderByIdDesc(rows), limit, offset)
    IN  [i \in 1..Len(page) |-> ListedPin(page[i])]

\* the offsets of a client that reads page after page: 0, and after a
\* response with has_more the offset advanced by the number of pins returned
NextOffsets(h) ==
    {0} \cup IF srv[h].kind = "list" /\ srv[h].has_more
             THEN {srv[h].offset + Len(srv[h].pins)}
             ELSE {}

\* get_pins up to the first statement: SELECT COUNT(*)
GetPinsCount(sw, h, offset, limit) ==
    /\ Free(h)
    /\ offset \in NextOffsets(h)
    /\ ops < Budget(sw)
    /\ ops' = ops + 1
    /\ srv' = [srv EXCEPT ![h] = [HandlerIdle EXCEPT
                 !.pc = "select", !.kind = "list",
                 !.offset = offset, !.limit = limit,
                 !.total = Cardinality(View(h)),
                 !.got = IF offset = 0 THEN << >> ELSE srv[h].got,
                 !.rows = IF offset = 0 THEN View(h) ELSE srv[h].rows,
                 !.steady = IF offset = 0 THEN TRUE
                            ELSE srv[h].steady /\ View(h) = srv[h].rows]]
    /\ UNCHANGED <<folded, disk, media, db, ever, seq, wtx, imp, mig, imported, hist>>

\* the SELECT with LIMIT and OFFSET, and the response
GetPinsSelect(h) ==
    /\ srv[h].pc = "select"
    /\ LET pins == SelectPins(View(h), srv[h].limit, srv[h].offset)
       IN  srv' = [srv EXCEPT ![h] = [@ EXCEPT
                     !.pc = "done", !.status = "ok", !.code = 200,
                     !.pins = pins,
                     !.has_more = srv[h].offset + Len(pins) < srv[h].total,
                     !.got = @ \o pins,
                     !.steady = @ /\ View(h) = srv[h].rows]]
    /\ UNCHANGED <<folded, disk, media, db, ever, seq, wtx, imp, mig, imported, hist, ops>>

(***************************************************************************)
(* The environment: a new snapshot is saved under base_path.               *)
(***************************************************************************)
SaveSnapshot(s) ==
    /\ s \notin disk
    /\ imp.pc \in Stopped
    /\ disk' = disk \cup {s}
    /\ UNCHANGED <<folded, srv, media, db, ever, seq, wtx, imp, mig, imported, hist, ops>>

(***************************************************************************)
(* Specifications.                                                         *)
(***************************************************************************)
\* a freshly initialised store (init_db), some snapshots and media on disk
InitWith(disks, medias) ==
    /\ disk \in disks
    /\ media \in medias
    /\ db = {}
    /\ seq = 0
    /\ wtx = << >>
    /\ imp = ImpIdle
    /\ mig = MigIdle
    /\ srv = [h \in Handlers |-> HandlerIdle]
    /\ imported = {}
    /\ ever = {}
    /\ folded = {}
    /\ hist = << >>
    /\ ops = 0

\* import runs and consolidation passes run one at a time (the single-writer
\* discipline), no server
NextSeq ==
    \/ \E s \in Catalogue : SaveSnapshot(s)
    \/ ImpStart(TRUE)
    \/ ImpParse(TRUE)
    \/ ImpReadError(TRUE)
    \/ ImpFileCheck
    \/ ImpPinExists
    \/ ImpInsert(TRUE)
    \/ ImpCommit
    \/ ImpStorageError(TRUE)
    \/ ImpFinish(TRUE)
    \/ MigStart(TRUE)
    \/ MigSelect(TRUE)
    \/ MigApply
    \/ MigCommit(TRUE)
    \/ MigStorageError(TRUE)

InitSeq == InitWith(SUBSET Catalogue, MediaChoices)

SpecSeq == InitSeq /\ [][NextSeq]_vars

\* the same commands over a base_path that may hold the folder 20240230
InitDates == InitWith({{SnapA}, {SnapD}, {SnapA, SnapD}}, MediaChoices)

SpecDates == InitDates /\ [][NextSeq]_vars

\* the same commands over a base_path that holds e.html and to which no
\* snapshot is added
NextDocs ==
    \/ ImpStart(TRUE)
    \/ ImpParse(TRUE)
    \/ ImpReadError(TRUE)
    \/ ImpFileCheck
    \/ ImpPinExists
    \/ ImpInsert(TRUE)
    \/ ImpCommit
    \/ ImpStorageError(TRUE)
    \/ ImpFinish(TRUE)
    \/ MigStart(TRUE)
    \/ MigSelect(TRUE)
    \/ MigApply
    \/ MigCommit(TRUE)
    \/ MigStorageError(TRUE)

InitDocs == InitWith({{SnapE}, {SnapA, SnapE}}, MediaChoices)

SpecDocs == InitDocs /\ [][NextDocs]_vars

\* the commands run one at a time over a base_path that holds b.html and to
\* which a.html is added, while a client of the server reads the list of pins
NextRead ==
    \/ SaveSnapshot(SnapA)
    \/ ImpStart(TRUE)
    \/ ImpParse(TRUE)
    \/ ImpReadError(TRUE)
    \/ ImpFileCheck
    \/ ImpPinExists
    \/ ImpInsert(TRUE)
    \/ ImpCommit
    \/ ImpStorageError(TRUE)
    \/ ImpFinish(TRUE)
    \/ MigStart(TRUE)
    \/ MigSelect(TRUE)
    \/ MigApply
    \/ MigCommit(TRUE)
    \/ MigStorageError(TRUE)
    \/ \E h \in Handlers, offset \in 0..Cardinality(db), limit \in 1..MaxLimit :
          GetPinsCount(TRUE, h, offset, limit)
    \/ \E h \in Handlers : GetPinsSelect(h)

InitRead == InitWith({{SnapB}}, MediaChoices)

SpecRead == InitRead /\ [][NextRead]_vars

\* the commands and the server's handlers run concurrently
Next ==
    \/ ImpStart(FALSE)
    \/ ImpParse(FALSE)
    \/ ImpReadError(FALSE)
    \/ ImpFileCheck
    \/ ImpPinExists
    \/ ImpInsert(FALSE)
    \/ ImpBusy(FALSE)
    \/ ImpCommit
    \/ ImpStorageError(FALSE)
    \/ ImpFinish(FALSE)
    \/ MigStart(FALSE)
    \/ MigSelect(FALSE)
    \/ MigApply
    \/ MigBusy(FALSE)
    \/ MigCommit(FALSE)
    \/ MigStorageError(FALSE)
    \/ \E h \in Handlers :
          \/ \E pin_id \in ReqPins, url \in ReqUrls : AddPinBegin(h, pin_id, url)
          \/ AddPinFileCheck(h)
          \/ AddPinDownload(h)
          \/ AddPinDownloadError(h)
          \/ AddPinExists(h)
          \/ AddPinInsert(h)
          \/ AddPinBusy(h)
          \/ AddPinCommit(h)
          \/ \E pin_id \in ReqPins, f \in BOOLEAN : DeletePinBegin(h, pin_id, f)
          \/ DeletePinDelete(h)
          \/ DeletePinBusy(h)
          \/ DeletePinUnlink(h)

Init == InitWith({{SnapA, SnapB}}, {{MediaFile("F1"), MediaFile("F2")}})

Spec == Init /\ [][Next]_vars

(***************************************************************************)
(* Properties.                                                             *)
(***************************************************************************)
\* the i-th latest event of hist (0: the latest)
Ev(i) == hist[Len(hist) - i]

\* the latest events are the start and the end of one command op
RanLast(op) ==
    /\ Len(hist) >= 2
    /\ Ev(1).op = op /\ Ev(1).phase = "start"
    /\ Ev(0).op = op /\ Ev(0).phase = "end"

\* before them come the start and the end of a command op
RanBefore(op) ==
    /\ Len(hist) >= 4
    /\ Ev(3).op = op /\ Ev(3).phase = "start"
    /\ Ev(2).op = op /\ Ev(2).phase = "end"

RowsOfFile(rows, file_id) == {r \in rows : r.file_id = file_id}

FileIdsOf(rows) == {r.file_id : r \in rows}

\* a record as the spec's scenarios write it: pin(file, rating)
Brief(rows) == {<<r.pin_id, r.file_id, r.rating>> : r \in rows}

\* the rows every connection may read or publish
AllViews == {db} \cup (IF wtx = << >> THEN {} ELSE {wtx[1].rows})

\* C1: in every reachable state of the concurrent system (import runs,
\* consolidation passes, add_pin and delete_pin requests interleaved), no two
\* records of the store, committed or in an open transaction, have the same
\* pin_id.
C1_PinIdUnique ==
    \A rows \in AllViews :
        \A r1, r2 \in rows : r1.pin_id = r2.pin_id => r1 = r2

\* C1's case: the import's INSERT met a pin_id that add_pin had committed
\* after the import's existence check, and the constraint refused it.
C1_Witness ==
    /\ imp.pc = "failed"
    /\ imp.err = "IntegrityError"
    /\ \E h \in Handlers : srv[h].status = "added"

\* C2: two import runs in a row over the same snapshot set and media
\* directory, the first of which completes: the store after the second run
\* (completed or aborted) is the store after the first, and the second run
\* reports pins_imported = 0.
C2_ImportTwice ==
    (/\ RanLast("import") /\ RanBefore("import")
     /\ Ev(2).ok
     /\ Ev(3).disk = Ev(1).disk
     /\ Ev(3).media = Ev(1).media)
    => /\ Ev(0).db = Ev(2).db
       /\ Ev(0).stats.pins_imported = 0

\* C2's case: the first of the two runs imported pins, the second ran over
\* the same snapshots.
C2_Witness ==
    /\ RanLast("import") /\ RanBefore("import")
    /\ Ev(2).ok /\ Ev(0).ok
    /\ Ev(3).disk = Ev(1).disk
    /\ Ev(2).stats.pins_imported >= 3
    /\ Ev(0).stats.pins_found >= 4

\* C3: after a consolidation pass that completes with no other writer
\* active, every file_id that had a record before the pass has exactly one
\* record after it.
C3_OnePerFile ==
    (RanLast("migrate") /\ Ev(0).ok)
    => \A f \in FileIdsOf(Ev(1).db) :
           Cardinality(RowsOfFile(Ev(0).db, f)) = 1

\* C3's case: the pass found a file_id with three records and one with one.
C3_Witness ==
    /\ RanLast("migrate") /\ Ev(0).ok
    /\ \E f \in FileIdsOf(Ev(1).db) : Cardinality(RowsOfFile(Ev(1).db, f)) = 3
    /\ \E f \in FileIdsOf(Ev(1).db) : Cardinality(RowsOfFile(Ev(1).db, f)) = 1

\* the record of a group that is first by (source_date, id)
FirstOf(group) ==
    CHOOSE r \in group :
        \A q \in group :
            \/ r.source_date < q.source_date
            \/ r.source_date = q.source_date /\ r.id <= q.id

C5_SurvivorIsOldest ==
    (/\ RanLast("migrate") /\ Ev(0).ok
     /\ {SnapA, SnapB} \subseteq Ev(1).imported)
    => {r.pin_id : r \in RowsOfFile(Ev(0).db, "F1")} = {"P1"}

\* C5's case: SnapB was imported before SnapA (P2 carries SnapB's date and
\* P1 got a later id than P2 and P3 had), then the pass ran.
C5_Witness ==
    /\ RanLast("migrate") /\ Ev(0).ok
    /\ {SnapA, SnapB} \subseteq Ev(1).imported
    /\ \E r \in Ev(1).db :
          /\ r.pin_id = "P2"
          /\ r.source_date = DateStringToTimestamp(SnapB.dir)
    /\ \E r1, r3 \in Ev(1).db :
          r1.pin_id = "P1" /\ r3.pin_id = "P3" /\ r3.id < r1.id
    /\ \E r \in Ev(0).db : r.pin_id = "P1" /\ r.rating = 1

\* what parse_html_file yields for each document of the catalogue
Yielded ==
    [s \in Catalogue |-> ParseHtmlFile(s.doc, DateStringToTimestamp(s.dir))]

RECURSIVE YieldedUpTo(_, _)
\* what parse_html_file yields for the first k snapshots of a run
YieldedUpTo(files, k) ==
    IF k = 0 THEN << >>
    ELSE YieldedUpTo(files, k - 1) \o Yielded[files[k]]

\* the parsed pins an import run has taken from the extractor so far
Taken ==
    LET all == YieldedUpTo(imp.files, imp.k)
    IN  SubSeq(all, 1, Len(all) - Len(imp.pins))

MediaAbsent(p) == <<p.file_id, p.file_extension>> \notin media

\* C6: (media directory unchanged during the runs) an import run inserts no
\* record for a parsed pin whose media file is absent: every record of the
\* store has its media file, no pin inserted by the run lacks it, and the
\* pins taken so far whose file is absent are exactly counted in
\* pins_skipped_no_file.
C6_MissingMediaNeverInserted ==
    /\ \A rows \in AllViews :
          \A r \in rows : <<r.file_id, r.file_extension>> \in media
    /\ imp.pc \in {"files", "pins", "exists", "insert"} =>
          /\ \A i \in 1..Len(Taken) :
                MediaAbsent(Taken[i]) =>
                    \A x \in imp.inserted : x[2] # Taken[i].pin_id
          /\ imp.stats.pins_skipped_no_file =
                Cardinality({i \in 1..Len(Taken) : MediaAbsent(Taken[i])})

\* C6's case: a run has skipped two pins without media and inserted others.
C6_Witness ==
    /\ imp.pc = "files"
    /\ imp.stats.pins_skipped_no_file >= 2
    /\ imp.stats.pins_imported >= 2

\* the snapshot an import run is at when a step makes it fail
FailingSnapshot == IF imp.pc = "files" THEN imp.k + 1 ELSE imp.k

\* C7: when extraction or storage fails while an import run processes
\* snapshot k, the persisted store is the store before the run plus the
\* records inserted for snapshots 1..k-1, and nothing stays pending.
C7_PartialFailure ==
    [][(imp.pc \notin Stopped /\ imp'.pc = "failed")
       => /\ wtx' = << >>
          /\ Ev(0).db \subseteq db'
          /\ {r.pin_id : r \in db' \ Ev(0).db} =
                {x[2] : x \in {y \in imp.inserted : y[1] < FailingSnapshot}}]_vars

\* C7's case: a run over SnapA and SnapB into an empty store failed in the
\* store while at SnapB: SnapA's two records are there, SnapB's P3 is not.
C7_Witness ==
    /\ RanLast("import") /\ ~Ev(0).ok
    /\ imp.err = "OperationalError"
    /\ Ev(1).db = {}
    /\ Ev(1).disk = {SnapA, SnapB}
    /\ {r.pin_id : r \in db} = {"P1", "P2"}

StatsAddUp(stats) ==
    stats.pins_found =
        stats.pins_imported + stats.pins_skipped_duplicate
        + stats.pins_skipped_no_file

\* C8: in one import run pins_found = pins_imported + pins_skipped_duplicate
\* + pins_skipped_no_file after every processed pin, and in the statistics
\* the run returns.
C8_StatsAddUp ==
    /\ imp.pc \in {"files", "pins", "done"} => StatsAddUp(imp.stats)
    /\ \A i \in 1..Len(hist) :
          (hist[i].op = "import" /\ hist[i].phase = "end" /\ hist[i].ok)
          => StatsAddUp(hist[i].stats)

\* C8's case: a returned run imported pins, skipped a duplicate and skipped a
\* pin without media.
C8_Witness ==
    /\ imp.pc = "done"
    /\ imp.stats.pins_imported > 0
    /\ imp.stats.pins_skipped_duplicate > 0
    /\ imp.stats.pins_skipped_no_file > 0

ScenarioStart(e) ==
    /\ e.db = {}
    /\ e.disk = {SnapA, SnapB}
    /\ e.media = {MediaFile("F1"), MediaFile("F2")}

\* C9: media F1 and F2, snapshots 20240101 = [P1 F1, P2 F2] and 20240102 =
\* [P3 F1, P2 F2].  An import into the empty store gives P1(F1,0), P2(F2,0),
\* P3(F1,0) with one duplicate skipped; the consolidation pass that follows
\* gives P1(F1,1), P2(F2,0).
C9_Scenario ==
    /\ (RanLast("import") /\ Ev(0).ok /\ ScenarioStart(Ev(1)))
       => /\ Brief(Ev(0).db) =
                {<<"P1", "F1", 0>>, <<"P2", "F2", 0>>, <<"P3", "F1", 0>>}
          /\ Ev(0).stats.pins_skipped_duplicate = 1
    /\ (/\ RanLast("migrate") /\ Ev(0).ok
        /\ RanBefore("import") /\ Ev(2).ok /\ ScenarioStart(Ev(3)))
       => Brief(Ev(0).db) = {<<"P1", "F1", 1>>, <<"P2", "F2", 0>>}

\* C9's case: the scenario's import and the consolidation pass after it.
C9_Witness ==
    /\ RanLast("migrate") /\ Ev(0).ok
    /\ RanBefore("import") /\ Ev(2).ok /\ ScenarioStart(Ev(3))
    /\ Cardinality(Ev(1).db) = 3
    /\ Cardinality(Ev(0).db) = 2

\* C10: a record for a given pin_id is created once: no pin_id is ever
\* committed under two different ids, whatever import runs and consolidation
\* passes follow each other.
C10_CreatedOnce ==
    \A x, y \in ever : x[2] = y[2] => x[1] = y[1]

\* C11: every record of the store carries the earliest date label under which
\* an imported snapshot holds its pin_id with the media file present,
\* whatever the order in which the snapshots were imported.
C11_EarliestDate ==
    \A r \in db :
        \A s \in imported :
            (\E i \in 1..Len(Yielded[s]) :
                /\ Yielded[s][i].pin_id = r.pin_id
                /\ FileExistsInOriginals(Yielded[s][i].file_id,
                                         Yielded[s][i].file_extension))
            => r.source_date <= DateStringToTimestamp(s.dir)

\* C12: in the concurrent system (import runs, consolidation passes, add_pin
\* and delete_pin requests) the rating of a record that stays in the store
\* never decreases, it changes only when a consolidation pass commits, and
\* every rating is a non-negative integer.
C12_RatingOnlyGrows ==
    [][/\ \A r \in db, q \in db' :
             r.id = q.id =>
                /\ q.rating >= r.rating
                /\ q.rating # r.rating => (mig.pc = "group" /\ mig'.pc = "done")
       /\ \A q \in db' : q.rating \in Nat]_vars

\* C12's case: a consolidation pass has raised a rating, an import run has
\* completed and add_pin has added a record next to the rated one.
C12_Witness ==
    /\ \E r \in db : r.rating = 1
    /\ imp.pc = "done"
    /\ \E h \in Handlers : srv[h].kind = "add" /\ srv[h].status = "added"
    /\ \E r \in db : r.pin_id = "P7"

\* the DELETEs committed by consolidation passes with record r as the survivor
FoldedInto(r) == {p \in folded : p[1] = r.id}

\* C13: after any sequence of import runs and consolidation passes, the rating
\* of every record of the store is the number of records consolidation has
\* deleted with that record as the survivor of their file_id group.
C13_RatingCountsFolded ==
    \A r \in db : r.rating = Cardinality(FoldedInto(r))

\* C13's case: a survivor of rating 2 that got its rating in two passes, with
\* an import run between them.
C13_Witness ==
    /\ RanLast("migrate") /\ Ev(0).ok
    /\ \E r \in db, q \in Ev(1).db :
          /\ q.id = r.id
          /\ q.rating = 1
          /\ r.rating = 2
          /\ Cardinality(FoldedInto(r)) = 2

\* the rows the import's connection reads after the step
ImpViewAfter == IF wtx' = << >> THEN db' ELSE wtx'[1].rows

\* C14: insert_pin on one connection, as import_pins calls it.  When a record
\* with the pin_id exists the call changes nothing and returns false (the
\* caller counts a duplicate), also when the record is one the same
\* connection inserted before; otherwise it adds exactly one record, holding
\* the caller's pin with the caller's rating under an id no record has or was
\* ever committed with, and returns true (the caller counts an import).
C14_InsertPin ==
    [][/\ (imp.pc = "exists" /\ imp'.pc \in {"pins", "insert"}) =>
             /\ wtx' = wtx /\ db' = db /\ seq' = seq
             /\ (\E r \in View("imp") : r.pin_id = imp.cur[1].pin_id) =>
                   /\ imp'.pc = "pins"
                   /\ imp'.stats = Bump(imp.stats, "pins_skipped_duplicate")
             /\ (\A r \in View("imp") : r.pin_id # imp.cur[1].pin_id) =>
                   imp'.pc = "insert"
       /\ (imp.pc = "insert" /\ imp'.pc = "pins") =>
             /\ \A r \in View("imp") : r.pin_id # imp.cur[1].pin_id
             /\ View("imp") \subseteq ImpViewAfter
             /\ db' = db
             /\ \E q \in ImpViewAfter :
                   /\ ImpViewAfter \ View("imp") = {q}
                   /\ [x \in DOMAIN imp.cur[1] |-> q[x]] = imp.cur[1]
                   /\ q.rating = imp.cur[1].rating
                   /\ \A r \in View("imp") : r.id # q.id
                   /\ \A x \in ever : x[1] # q.id
             /\ imp'.stats = Bump(imp.stats, "pins_imported")]_vars

\* C14's case: one run inserted P2 and P1 from the first snapshot, then met P2
\* again in the second (the second call for P2 on the same connection, a
\* no-op) and inserted P3.
C14_Witness ==
    /\ imp.pc = "pins"
    /\ imp.k = 2
    /\ <<1, "P2">> \in imp.inserted
    /\ <<2, "P3">> \in imp.inserted
    /\ imp.stats.pins_skipped_duplicate = 1
    /\ imp.stats.pins_imported = 3

\* C15: an import run only adds records.  Every record the store held when
\* the run started is in the store, with every field unchanged, at each point
\* of the run (committed and in the run's open transaction) and when the run
\* has ended, completed or aborted.
C15_ImportOnlyAdds ==
    /\ imp.pc \notin Stopped =>
          /\ Ev(0).op = "import" /\ Ev(0).phase = "start"
          /\ Ev(0).db \subseteq db
          /\ Ev(0).db \subseteq View("imp")
    /\ RanLast("import") => Ev(1).db \subseteq Ev(0).db

\* C15's case: a run over a store that holds a rated survivor skipped
\* duplicates and added a record.
C15_Witness ==
    /\ RanLast("import") /\ Ev(0).ok
    /\ \E r \in Ev(1).db : r.rating > 0
    /\ Ev(0).stats.pins_skipped_duplicate >= 2
    /\ Ev(0).stats.pins_imported >= 1
    /\ Ev(0).db # Ev(1).db

\* the latest two commands are completed import runs over one snapshot set
\* and one media directory
TwoImportsInARow ==
    /\ RanLast("import") /\ RanBefore("import")
    /\ Ev(2).ok /\ Ev(0).ok
    /\ Ev(3).disk = Ev(1).disk
    /\ Ev(3).media = Ev(1).media

\* the candidates of a snapshot set: <<snapshot, position in what the
\* extractor yields>>
Candidates(snapshots) ==
    UNION {{<<s, i>> : i \in 1..Len(Yielded[s])} : s \in snapshots}

\* the candidates whose media file is in directory m
WithMedia(snapshots, m) ==
    {c \in Candidates(snapshots) :
        <<Yielded[c[1]][c[2]].file_id, Yielded[c[1]][c[2]].file_extension>> \in m}

\* C16 as stated: on the second of two consecutive import runs over an
\* unchanged snapshot set, pins_skipped_duplicate equals pins_found.
C16_AllDuplicates ==
    TwoImportsInARow =>
        Ev(0).stats.pins_skipped_duplicate = Ev(0).stats.pins_found

\* C16 as amended: on the second of two consecutive import runs over an
\* unchanged snapshot set and media directory, every candidate whose media
\* file is present is counted as a duplicate and every other candidate as
\* missing media: pins_skipped_duplicate is the number of candidates with
\* media, pins_skipped_no_file the number without, pins_imported is 0.
C16_AllPresentDuplicates ==
    TwoImportsInARow =>
        /\ Ev(0).stats.pins_found = Cardinality(Candidates(Ev(1).disk))
        /\ Ev(0).stats.pins_skipped_duplicate =
              Cardinality(WithMedia(Ev(1).disk, Ev(1).media))
        /\ Ev(0).stats.pins_skipped_no_file =
              Cardinality(Candidates(Ev(1).disk))
              - Cardinality(WithMedia(Ev(1).disk, Ev(1).media))
        /\ Ev(0).stats.pins_imported = 0

\* C16's case: the second run met candidates with media and candidates
\* without.
C16_Witness ==
    /\ TwoImportsInARow
    /\ Ev(0).stats.pins_skipped_duplicate >= 2
    /\ Ev(0).stats.pins_skipped_no_file >= 2

\* C17: an import run over a base_path with a folder whose name is eight
\* digits and no calendar date fails at scan time: the store after the run is
\* the store before it, no record is committed even for snapshots with
\* earlier, valid date labels.
C17_FailsAtScan ==
    (/\ RanLast("import")
     /\ \E s \in Ev(1).disk : MatchesEightDigits(s.dir) /\ ~ValidDate(s.dir))
    => Ev(0).db = Ev(1).db

\* C18: a pin_id that is already present is never an error for an import run,
\* also when add_pin commits the pin_id between insert_pin's existence check
\* and its INSERT: no run ends in the constraint's IntegrityError.
C18_DuplicateNotAnError ==
    imp.pc = "failed" => imp.err # "IntegrityError"

\* record q was created by add_pin: its source_date is the server's clock
ByAddPin(q) == q.source_date \in ClockTimes

\* C19: add_pin never creates a record whose file_id is already held by a
\* record of the store: no record made by add_pin shares its file_id with a
\* record inserted before it.
C19_AddPinChecksFile ==
    \A r, q \in db :
        (ByAddPin(q) /\ r.id < q.id) => r.file_id # q.file_id

\* the ids of the rows commits have published so far
EverIds == {x[1] : x \in ever}

\* C20: every record a commit adds to the store has an id greater than the id
\* of every record committed before it, the records since deleted by
\* consolidation or by delete_pin included; so no id is ever used for two
\* records.
C20_IdsMonotonic ==
    [][\A q \in db' :
          (\A r \in db : r.id # q.id) => \A i \in EverIds : i < q.id]_vars

\* C20's case: the record of a pin had the largest id ever assigned when it
\* was deleted (by a consolidation pass or by delete_pin); the pin was then
\* inserted again and is in the store under the next id.
C20_Witness ==
    \E r \in db :
        /\ <<r.id - 1, r.pin_id>> \in ever
        /\ \A i \in EverIds : i <= r.id

\* the rows of r's file_id that the committed table loses in the step
DeletedWith(r) ==
    {d \in db : d.file_id = r.file_id /\ \A x \in db' : x.id # d.id}

PositionIn(s, f) == CHOOSE i \in 1..Len(s) : s[i] = f

\* files holds the documents of enum with an eight-digit folder name, by
\* ascending date label, documents of one label in the order enum gives them
OrderedFrom(enum, files) ==
    /\ {files[i] : i \in 1..Len(files)} =
          {enum[i] : i \in {j \in 1..Len(enum) : MatchesEightDigits(enum[j].dir)}}
    /\ \A i, j \in 1..Len(files) :
          i < j =>
             /\ files[i] # files[j]
             /\ files[i].dir <= files[j].dir
             /\ files[i].dir = files[j].dir =>
                   PositionIn(enum, files[i]) < PositionIn(enum, files[j])

\* for each snapshot set of the catalogue: <<enumeration the filesystem may
\* give, what get_html_files returns for it>>
Listings ==
    [d \in SUBSET Catalogue |->
        {<<enum, GetHtmlFiles(enum)>> : enum \in Enumerations(d)}]

\* every listing is ordered
ListingsOrdered ==
    \A d \in SUBSET Catalogue : \A l \in Listings[d] : OrderedFrom(l[1], l[2])

\* C22: get_html_files returns the snapshots by ascending date label,
\* snapshots of one label in their enumeration order, and import_pins
\* processes them in that order: when it is about to extract a snapshot
\* nothing is pending, and every record it inserted for an earlier snapshot
\* is committed while a later snapshot is processed.
C22_DateOrder ==
    /\ ListingsOrdered
    /\ imp.pc \notin Stopped =>
          /\ \E l \in Listings[disk] : imp.files = l[2]
          /\ imp.pc = "files" => (~Owns("imp") /\ imp.pins = << >>)
          /\ \A x \in imp.inserted :
                (x[1] < imp.k \/ imp.pc = "files") =>
                    \E r \in db : r.pin_id = x[2]

\* C22's case: a run over 20240101 and two documents of 20240102 that the
\* folder listed as c.html, b.html is at the last of them, with the records
\* of the first two committed.
C22_Witness ==
    /\ imp.pc = "pins"
    /\ imp.files = <<SnapA, SnapC, SnapB>>
    /\ imp.k = 3
    /\ <<1, "P1">> \in imp.inserted
    /\ <<2, "P4">> \in imp.inserted

\* element e is accepted: its pin-id marker is not empty and one of its
\* candidates is an originals URL of the expected shape
Accepted(e) ==
    /\ e.pin_id # ""
    /\ \E i \in 1..Len(e.srcset) :
          e.srcset[i].size = "originals" /\ e.srcset[i].wellformed

\* C23: each time import_pins has parse_html_file extract a document, what
\* it yields is one pin for each accepted element, the last accepted element
\* of the document first, each with the timestamp of the document's date
\* label and a file of one of its element's candidates; a later extraction of
\* the same document yields the same.
C23_ReversedYield ==
    [][(imp.pc = "files" /\ imp'.pc = "pins") =>
          LET f   == imp.files[imp'.k]
              acc == SelectSeq(f.doc, Accepted)
              n   == Len(acc)
          IN  /\ Len(imp'.pins) = n
              /\ \A i \in 1..n :
                    LET p == imp'.pins[i]
                        e == acc[n + 1 - i]
                    IN  /\ p.pin_id = e.pin_id
                        /\ p.source_date = DateStringToTimestamp(f.dir)
                        /\ \E j \in 1..Len(e.srcset) :
                              /\ p.original_url = e.srcset[j]
                              /\ p.file_id = e.srcset[j].file_id
                              /\ p.file_extension = e.srcset[j].ext]_vars

\* C23's case: c.html, with elements P4, (no pin id), P5, P6 (no original),
\* has been extracted for the second time: P5 is yielded first, then P4.
C23_Witness ==
    /\ imp.pc = "pins"
    /\ imp.files[imp.k] = SnapC
    /\ SnapC \in imported
    /\ Len(imp.pins) = 2
    /\ imp.pins[1].pin_id = "P5"
    /\ imp.pins[2].pin_id = "P4"

\* the first candidate of a srcset, in list order, that contains the
\* originals marker; <<>> when no candidate contains it
FirstWithMarker(srcset) ==
    LET marked == {i \in 1..Len(srcset) : srcset[i].size = "originals"}
    IN  IF marked = {} THEN << >>
        ELSE <<srcset[CHOOSE i \in marked : \A j \in marked : i <= j]>>

\* the elements of document doc that carry pin id pin_id
ElementsOf(doc, pin_id) ==
    {doc[i] : i \in {j \in 1..Len(doc) : doc[j].pin_id = pin_id}}

\* C24: every pin the extractor yields for a document is built from the
\* first candidate, in list order, of its element's srcset that contains the
\* originals marker; no pin is built from a candidate that comes after it.
C24_FirstMarkedCandidate ==
    imp.pc = "pins" =>
        \A i \in 1..Len(imp.pins) :
            \A e \in ElementsOf(imp.files[imp.k].doc, imp.pins[i].pin_id) :
                /\ FirstWithMarker(e.srcset) # << >>
                /\ imp.pins[i].original_url = FirstWithMarker(e.srcset)[1]

\* the first candidate of a srcset, in list order, that contains the
\* originals marker and has the shape of an original's path; <<>> when no
\* candidate does
FirstMatching(srcset) ==
    LET ok == {i \in 1..Len(srcset) :
                  srcset[i].size = "originals" /\ srcset[i].wellformed}
    IN  IF ok = {} THEN << >>
        ELSE <<srcset[CHOOSE i \in ok : \A j \in ok : i <= j]>>

\* C24 (amended): each time a document is extracted, an element with a pin
\* id yields a pin exactly when one of its candidates contains the originals
\* marker and matches the path pattern, and the pin is built from the first
\* such candidate in list order, never from one that comes after it.
C24_FirstMatchingCandidate ==
    [][(imp.pc = "files" /\ imp'.pc = "pins") =>
          LET doc == imp.files[imp'.k].doc
          IN  \A n \in 1..Len(doc) :
                 LET e     == doc[n]
                     built == {i \in 1..Len(imp'.pins) :
                                  imp'.pins[i].pin_id = e.pin_id}
                 IN  e.pin_id # "" =>
                        IF FirstMatching(e.srcset) = << >>
                        THEN built = {}
                        ELSE /\ built # {}
                             /\ \A i \in built :
                                   /\ imp'.pins[i].original_url
                                         = FirstMatching(e.srcset)[1]
                                   /\ imp'.pins[i].file_id
                                         = FirstMatching(e.srcset)[1].file_id]_vars

\* C24's case: e.html has been extracted; the srcset of its element P9 holds
\* a thumbnail, an originals candidate of another shape, the original F1 and
\* the original F2, and the pin of P9 is built from F1.
C24_Witness ==
    /\ imp.pc = "pins"
    /\ imp.files[imp.k] = SnapE
    /\ FirstWithMarker(SnapE.doc[2].srcset) # FirstMatching(SnapE.doc[2].srcset)
    /\ \E i \in 1..Len(imp.pins) :
          imp.pins[i].pin_id = "P9" /\ imp.pins[i].file_id = "F1"

\* C25: when a consolidation pass fails, after whatever number of groups it
\* has updated and deleted from, the store is the store the pass started
\* from and nothing of the pass is left pending.
C25_FailedPassChangesNothing ==
    (RanLast("migrate") /\ ~Ev(0).ok) =>
        /\ db = Ev(1).db
        /\ wtx = << >>
        /\ mig.pc = "failed"

\* C25's case: a pass over a store with two groups of duplicates has failed
\* after it had consolidated one of them.
C25_Witness ==
    /\ RanLast("migrate") /\ ~Ev(0).ok
    /\ Ev(0).stats.total_deleted = 1
    /\ Cardinality(Duplicates(db)) = 2

\* C26: the media file <file_id>.<file_extension> of every stored record is
\* in the originals directory.
C26_MediaOfEveryRecord ==
    \A r \in db : <<r.file_id, r.file_extension>> \in media

RECURSIVE SumOfRatings(_)
\* the sum of the ratings of the records of rows
SumOfRatings(rows) ==
    IF rows = {} THEN 0
    ELSE LET r == CHOOSE x \in rows : TRUE
         IN  r.rating + SumOfRatings(rows \ {r})

\* what C27 has a pass conserve: the sum of all ratings plus the number of
\* records
Weight(rows) == SumOfRatings(rows) + Cardinality(rows)

\* the records of rows that have no record of the same id in after
Removed(rows, after) == {r \in rows : \A q \in after : q.id # r.id}

\* C27 as stated: after a completed pass the one record of every group has
\* the sum of the ratings of the group's members plus (group size - 1), and
\* (sum of all ratings + number of records) is what it was before the pass.
C27_RatingConserved ==
    (RanLast("migrate") /\ Ev(0).ok) =>
        /\ Weight(Ev(0).db) = Weight(Ev(1).db)
        /\ \A f \in FileIdsOf(Ev(1).db) :
              LET group == RowsOfFile(Ev(1).db, f)
              IN  Cardinality(group) > 1 =>
                     \A r \in RowsOfFile(Ev(0).db, f) :
                        r.rating = SumOfRatings(group) + Cardinality(group) - 1

\* C27 (amended): after a completed pass the survivor of every group has its
\* own rating of before the pass plus (group size - 1); the ratings of the
\* deleted members are not carried over, so (sum of all ratings + number of
\* records) has gone down by the sum of the ratings of the deleted records.
C27_SurvivorKeepsOwnRating ==
    (RanLast("migrate") /\ Ev(0).ok) =>
        /\ Weight(Ev(0).db)
              = Weight(Ev(1).db) - SumOfRatings(Removed(Ev(1).db, Ev(0).db))
        /\ \A f \in FileIdsOf(Ev(1).db) :
              LET group == RowsOfFile(Ev(1).db, f)
              IN  Cardinality(group) > 1 =>
                     \E q \in group :
                        /\ q \notin Removed(Ev(1).db, Ev(0).db)
                        /\ \A r \in RowsOfFile(Ev(0).db, f) :
                              /\ r.id = q.id
                              /\ r.rating = q.rating + Cardinality(group) - 1

\* C27's case: snapshots of 20240102 were imported and consolidated, a
\* snapshot of 20240101 was imported after that, and the next pass has
\* deleted a record that had a rating from the earlier pass.
C27_Witness ==
    /\ RanLast("migrate") /\ Ev(0).ok
    /\ \E r \in Removed(Ev(1).db, Ev(0).db) :
          /\ r.rating > 0
          /\ \E q \in Ev(0).db :
                q.file_id = r.file_id /\ q.source_date < r.source_date

\* C28: a completed consolidation pass leaves every record whose file_id no
\* other record has as it was, and every record of the store after the pass
\* is a record of the store before it with nothing but its rating changed.
C28_FrameOfPass ==
    (RanLast("migrate") /\ Ev(0).ok) =>
        /\ \A r \in Ev(1).db :
              Cardinality(RowsOfFile(Ev(1).db, r.file_id)) = 1 => r \in Ev(0).db
        /\ \A q \in Ev(0).db :
              \E r \in Ev(1).db : q = [r EXCEPT !.rating = q.rating]

\* C28's case: the pass has consolidated the records of one file_id, next to
\* a record whose file_id no other record had.
C28_Witness ==
    /\ RanLast("migrate") /\ Ev(0).ok
    /\ \E r \in Ev(1).db : Cardinality(RowsOfFile(Ev(1).db, r.file_id)) = 1
    /\ \E r \in Ev(1).db, q \in Ev(0).db : r.id = q.id /\ r.rating < q.rating

\* C29: a request of add_pin answers "added" only when its own commit puts
\* a record with its pin_id into the store; of two requests with one pin_id
\* that both passed the first existence check, only one can do so, the other
\* answers "exists".
C29_AddedMeansInserted ==
    [][\A h \in Handlers :
          (srv[h].pc = "commit" /\ srv'[h].pc = "done"
           /\ srv'[h].status = "added") =>
             \E r \in db' :
                /\ r.pin_id = srv'[h].pin_id
                /\ \A q \in db : q.id # r.id]_vars

\* the handlers that hold the response to a request of a client whose
\* requests have all read one and the same store
SteadyReaders ==
    {h \in Handlers :
        srv[h].kind = "list" /\ srv[h].pc = "done" /\ srv[h].steady}

\* pins holds every record of rows exactly once
EachOnce(pins, rows) ==
    /\ Len(pins) = Cardinality(rows)
    /\ \A r \in rows : \E i \in 1..Len(pins) : pins[i] = ListedPin(r)

\* C30 as stated: the pins a client has received, page after page from
\* offset 0 on an unchanging store, come newest first over (source_date, id);
\* has_more is true exactly when offset + page length < total, and when it
\* is false the client has every record exactly once.
C30_NewestBySourceDate ==
    \A h \in SteadyReaders :
        /\ \A i, j \in 1..Len(srv[h].got) :
              i < j =>
                 \/ srv[h].got[i].source_date > srv[h].got[j].source_date
                 \/ /\ srv[h].got[i].source_date = srv[h].got[j].source_date
                    /\ srv[h].got[i].id > srv[h].got[j].id
        /\ srv[h].has_more
              <=> srv[h].offset + Len(srv[h].pins) < Cardinality(srv[h].rows)
        /\ ~srv[h].has_more => EachOnce(srv[h].got, srv[h].rows)

\* C30 (amended): the pins a client has received, page after page from
\* offset 0 on an unchanging store, come newest first by id descending,
\* whatever their source_date, and they are the records of the highest ids;
\* has_more is true exactly when offset + page length < total, and when it
\* is false the client has every record exactly once.
C30_NewestById ==
    \A h \in SteadyReaders :
        /\ \A i, j \in 1..Len(srv[h].got) :
              i < j => srv[h].got[i].id > srv[h].got[j].id
        /\ \A i \in 1..Len(srv[h].got) :
              \E r \in srv[h].rows :
                 /\ srv[h].got[i] = ListedPin(r)
                 /\ \A q \in srv[h].rows :
                       q.id > r.id => \E j \in 1..i : srv[h].got[j].id = q.id
        /\ Len(srv[h].pins) <= srv[h].limit
        /\ srv[h].has_more
              <=> srv[h].offset + Len(srv[h].pins) < Cardinality(srv[h].rows)
        /\ ~srv[h].has_more => EachOnce(srv[h].got, srv[h].rows)

\* C30's case: b.html (20240102) was imported before a.html (20240101); a
\* client has read the store in more than one page, to the end, and got a
\* record of 20240101 before a record of 20240102.
C30_Witness ==
    \E h \in SteadyReaders :
        /\ ~srv[h].has_more
        /\ srv[h].offset > 0
        /\ srv[h].rows = db
        /\ \E i, j \in 1..Len(srv[h].got) :
              i < j /\ srv[h].got[i].source_date < srv[h].got[j].source_date

=============================================================================
